---- MODULE Spec2Model ----
(***************************************************************************)
(* A model of project2context.js: the file filter (shouldProcessFile,      *)
(* isTextFile), the encoding probe (getFileEncoding), the token estimator, *)
(* the tree pass (generateTree) and the content pass (processDirectory and *)
(* its inner walkDir) over a small file system.                            *)
(*                                                                         *)
(* Names are sequences of one-character strings, file contents are         *)
(* sequences of bytes (0..255), decoded text is a sequence of code units.  *)
(***************************************************************************)
EXTENDS Integers, Sequences, FiniteSets, TLC

(***************************************************************************)
(* Bounds of the model.                                                    *)
(***************************************************************************)
\* longest directory listing of the walk root drawn in Init
MaxEntries == 3

(***************************************************************************)
(* Configuration sets, project2context.js lines 5-30.                      *)
(***************************************************************************)
EXCLUDED_DIRS ==
    {<<"n","o","d","e","_","m","o","d","u","l","e","s">>, <<"v","e","n","v">>,
     <<".","g","i","t">>, <<"_","_","p","y","c","a","c","h","e","_","_">>,
     <<"b","u","i","l","d">>, <<"d","i","s","t">>}

EXCLUDED_FILES ==
    {<<"p","a","c","k","a","g","e","-","l","o","c","k",".","j","s","o","n">>,
     <<"y","a","r","n",".","l","o","c","k">>,
     <<"p","r","o","j","e","c","t","-","c","o","n","t","e","x","t",".","t","x","t">>}

TEXT_EXTENSIONS ==
    {<<".","t","x","t">>, <<".","m","d">>, <<".","p","y">>,
     <<".","j","s">>, <<".","t","s">>, <<".","j","s","x">>,
     <<".","t","s","x">>, <<".","c","p","p">>, <<".","h">>,
     <<".","h","p","p">>, <<".","c">>, <<".","c","s">>,
     <<".","j","a","v","a">>, <<".","h","t","m","l">>, <<".","c","s","s">>,
     <<".","s","c","s","s">>, <<".","s","a","s","s">>, <<".","j","s","o","n">>,
     <<".","y","m","l">>, <<".","y","a","m","l">>, <<".","x","m","l">>,
     <<".","e","n","v">>, <<".","c","o","n","f","i","g">>,
     <<".","d","o","c","k","e","r","f","i","l","e">>,
     <<".","s","h">>, <<".","b","a","t">>, <<".","p","s","1">>}

EXCLUDED_EXTENSIONS ==
    {<<".","s","v","g">>, <<".","p","n","g">>, <<".","j","p","g">>,
     <<".","j","p","e","g">>, <<".","g","i","f">>, <<".","i","c","o">>,
     <<".","p","d","f">>, <<".","z","i","p">>, <<".","t","a","r">>,
     <<".","g","z">>, <<".","r","a","r">>, <<".","e","x","e">>,
     <<".","d","l","l">>, <<".","p","d","b">>, <<".","p","y","c">>}

\* path.basename(process.argv[1]): the script is run under its own name
getScriptName ==
    <<"p","r","o","j","e","c","t","2","c","o","n","t","e","x","t",".","j","s">>

\* isTextFile looks at .slice(0, 1024) of the file
SniffLen == 1024

\* getFileEncoding reads into Buffer.alloc(4)
BomLen == 4

(***************************************************************************)
(* Strings: String.prototype.toLowerCase, path.extname and localeCompare.  *)
(***************************************************************************)
UpperToLower ==
    [c \in {"A","B","C","D","E","F","G","H","I","J","K","L","M",
            "N","O","P","Q","R","S","T","U","V","W","X","Y","Z"} |->
       CASE c = "A" -> "a" [] c = "B" -> "b" [] c = "C" -> "c" [] c = "D" -> "d"
         [] c = "E" -> "e" [] c = "F" -> "f" [] c = "G" -> "g" [] c = "H" -> "h"
         [] c = "I" -> "i" [] c = "J" -> "j" [] c = "K" -> "k" [] c = "L" -> "l"
         [] c = "M" -> "m" [] c = "N" -> "n" [] c = "O" -> "o" [] c = "P" -> "p"
         [] c = "Q" -> "q" [] c = "R" -> "r" [] c = "S" -> "s" [] c = "T" -> "t"
         [] c = "U" -> "u" [] c = "V" -> "v" [] c = "W" -> "w" [] c = "X" -> "x"
         [] c = "Y" -> "y" [] c = "Z" -> "z"]

IsUpper(c) == c \in DOMAIN UpperToLower

toLowerCase(s) ==
    [i \in 1..Len(s) |-> IF IsUpper(s[i]) THEN UpperToLower[s[i]] ELSE s[i]]

\* Collation order of the characters that occur in names: punctuation, then
\* digits, then letters.
Collation ==
    <<"_","-",".","0","1","2","3","4","5","6","7","8","9",
      "a","b","c","d","e","f","g","h","i","j","k","l","m",
      "n","o","p","q","r","s","t","u","v","w","x","y","z">>

Rank(c) ==
    LET l == IF IsUpper(c) THEN UpperToLower[c] ELSE c
    IN  CHOOSE i \in 1..Len(Collation) : Collation[i] = l

RECURSIVE PrimaryCompare(_, _)
\* first difference of two strings at the primary (letter) level
PrimaryCompare(a, b) ==
    IF a = <<>> /\ b = <<>> THEN 0
    ELSE IF a = <<>> THEN -1
    ELSE IF b = <<>> THEN 1
    ELSE IF Rank(Head(a)) < Rank(Head(b)) THEN -1
    ELSE IF Rank(Head(a)) > Rank(Head(b)) THEN 1
    ELSE PrimaryCompare(Tail(a), Tail(b))

RECURSIVE CaseCompare(_, _)
\* tie-break of strings equal at the primary level: lower case sorts first
CaseCompare(a, b) ==
    IF a = <<>> \/ b = <<>> THEN 0
    ELSE IF Head(a) = Head(b) THEN CaseCompare(Tail(a), Tail(b))
    ELSE IF IsUpper(Head(b)) THEN -1
    ELSE 1

\* a.localeCompare(b): -1, 0 or 1
localeCompare(a, b) ==
    LET p == PrimaryCompare(a, b)
    IN  IF p # 0 THEN p ELSE CaseCompare(a, b)

\* index of the last "." of a name, 0 when there is none
LastDot(name) ==
    LET dots == {i \in 1..Len(name) : name[i] = "."}
    IN  IF dots = {} THEN 0 ELSE CHOOSE i \in dots : \A j \in dots : j <= i

\* path.extname: from the last dot on; empty when the name has no dot or
\* only a leading one
extname(name) ==
    IF LastDot(name) <= 1 THEN <<>> ELSE SubSeq(name, LastDot(name), Len(name))

(***************************************************************************)
(* Files.  A directory entry is a record                                   *)
(*   name     the entry's name                                             *)
(*   type     "dir", "file", "symlink" (to a regular file) or "other"      *)
(*   listable a directory: readdirSync succeeds                            *)
(*   entries  a directory: its listing, in the order the file system       *)
(*            returns it                                                   *)
(*   bytes    a non-directory: its content (of a big one, its beginning)   *)
(*   perm     a non-directory: it can be opened and read                   *)
(*   big      a non-directory: longer than the longest string the runtime  *)
(*            can build, so reading it whole into a string fails           *)
(*   ioErr    a non-directory: the read of the content pass fails          *)
(***************************************************************************)
Take(s, n) == SubSeq(s, 1, IF Len(s) < n THEN Len(s) ELSE n)

\* fs.readFileSync(filePath, {encoding}) succeeds
ReadWholeOk(f) == f.perm /\ ~f.big

\* isTextFile, lines 41-54: the whole file is read as a binary string, cut
\* to its first 1024 characters and searched for "\0"; any error gives false
isTextFile(f) ==
    IF ~ReadWholeOk(f) THEN FALSE
    ELSE LET buffer == Take(f.bytes, SniffLen)
         IN  ~(\E i \in 1..Len(buffer) : buffer[i] = 0)

\* shouldProcessFile, lines 98-127
shouldProcessFile(f) ==
    LET fileName == f.name
        extension == toLowerCase(extname(f.name))
    IN  IF fileName = getScriptName THEN FALSE
        ELSE IF fileName \in EXCLUDED_FILES THEN FALSE
        ELSE IF extension \in EXCLUDED_EXTENSIONS THEN FALSE
        ELSE IF ~(extension \in TEXT_EXTENSIONS \/ extension = <<>>) THEN FALSE
        ELSE isTextFile(f)

\* the 4-byte buffer of getFileEncoding: zero-filled, then overwritten by
\* as many bytes as the file has
ProbeBuffer(bytes) ==
    [i \in 1..BomLen |-> IF i <= Len(bytes) THEN bytes[i] ELSE 0]

\* the BOM tests of getFileEncoding, lines 68-81, on the filled buffer
ClassifyBom(buffer) ==
    IF buffer[1] = 239 /\ buffer[2] = 187 /\ buffer[3] = 191 THEN "utf8"
    ELSE IF (buffer[1] = 255 /\ buffer[2] = 254)
            \/ (buffer[1] = 254 /\ buffer[2] = 255) THEN "utf16le"
    ELSE IF (buffer[1] = 255 /\ buffer[2] = 254 /\ buffer[3] = 0 /\ buffer[4] = 0)
            \/ (buffer[1] = 0 /\ buffer[2] = 0 /\ buffer[3] = 254 /\ buffer[4] = 255)
         THEN "utf32le"
    ELSE "utf8"

\* getFileEncoding, lines 56-86: a failing open or read gives "utf8"
getFileEncoding(bytes, probeOk) ==
    IF ~probeOk THEN "utf8" ELSE ClassifyBom(ProbeBuffer(bytes))

RECURSIVE DecodeUtf8(_)
\* Buffer -> string as UTF-8: ASCII bytes map to themselves, the BOM to
\* U+FEFF, any other byte to U+FFFD
DecodeUtf8(bytes) ==
    IF bytes = <<>> THEN <<>>
    ELSE IF Len(bytes) >= 3 /\ bytes[1] = 239 /\ bytes[2] = 187 /\ bytes[3] = 191
         THEN <<65279>> \o DecodeUtf8(SubSeq(bytes, 4, Len(bytes)))
    ELSE IF Head(bytes) < 128 THEN <<Head(bytes)>> \o DecodeUtf8(Tail(bytes))
    ELSE <<65533>> \o DecodeUtf8(Tail(bytes))

\* Buffer -> string as UTF-16LE: one code unit per byte pair, a trailing odd
\* byte is dropped
DecodeUtf16le(bytes) ==
    [i \in 1..(Len(bytes) \div 2) |-> bytes[2 * i - 1] + 256 * bytes[2 * i]]

\* the encodings fs.readFileSync accepts among those getFileEncoding returns
SupportedEncodings == {"utf8", "utf16le"}

Decode(bytes, encoding) ==
    IF encoding = "utf16le" THEN DecodeUtf16le(bytes) ELSE DecodeUtf8(bytes)

\* /\s/ of the regular expressions in estimateTokens
IsSpace(c) == c \in {9, 10, 11, 12, 13, 32, 160, 65279}

\* /[a-zA-Z0-9]/
IsAlnum(c) == (c >= 48 /\ c <= 57) \/ (c >= 65 /\ c <= 90) \/ (c >= 97 /\ c <= 122)

\* text.split(/\s+/).length: one more than the number of whitespace runs
SplitWords(text) ==
    1 + Cardinality({i \in 1..Len(text) :
                        IsSpace(text[i]) /\ (i = 1 \/ ~IsSpace(text[i - 1]))})

\* estimateTokens, lines 88-96
estimateTokens(text) ==
    LET words == SplitWords(text)
        specialChars == Cardinality({i \in 1..Len(text) :
                                        ~(IsAlnum(text[i]) \/ IsSpace(text[i]))})
    IN  words + specialChars + (words \div 4)

\* the line count without the "+ 1" of line 237
CountLinesNoPlusOne(content) ==
    Cardinality({i \in 1..Len(content) : content[i] = 10})

\* (content.match(/\n/g) || []).length + 1, line 237
CountLines(content) ==
    Cardinality({i \in 1..Len(content) : content[i] = 10}) + 1

(***************************************************************************)
(* The output stream.  Every write appends one record:                     *)
(*   k       "marker"  a literal line of the frame (text in name)          *)
(*           "tdir"    tree line of a directory,   prefix + name + "/"     *)
(*           "tfile"   tree line of a file,        prefix + name           *)
(*           "denied"  tree line "[ACCESS DENIED]" of a directory          *)
(*           "file"    a <file path=...> block with its content            *)
(*           "error"   an <error file=...> block                           *)
(*   prefix  the indentation of a tree line, one glyph per level           *)
(*   path    names from the walk root down to the entry (for a tree line   *)
(*           the path the line stands for; the root itself is <<>>)        *)
(***************************************************************************)
\* the glyphs of generateTree, lines 164-165, written in ASCII:
\* BranchMid is the tee glyph (U+251C U+2500 space), BranchLast the corner
\* glyph (U+2514 U+2500 space), IndentMid the bar (U+2502 and two spaces),
\* IndentLast three spaces
BranchMid == "|- "

BranchLast == "+- "

IndentMid == "|  "

IndentLast == "   "

Rec(k, prefix, name, path, content) ==
    [k |-> k, prefix |-> prefix, name |-> name, path |-> path, content |-> content]

Marker(text) == Rec("marker", <<>>, text, <<>>, <<>>)

\* the comparator of generateTree without its two directory tests
TreeCompareNamesOnly(a, b) ==
    localeCompare(toLowerCase(a.name), toLowerCase(b.name))

\* the comparator of generateTree, lines 147-153
TreeCompare(a, b) ==
    IF a.type = "dir" /\ b.type # "dir" THEN -1
    ELSE IF a.type # "dir" /\ b.type = "dir" THEN 1
    ELSE localeCompare(toLowerCase(a.name), toLowerCase(b.name))

RECURSIVE InsertItem(_, _)
\* x goes before the first element that must follow it (a stable sort)
InsertItem(x, sorted) ==
    IF sorted = <<>> THEN <<x>>
    ELSE IF TreeCompare(x, Head(sorted)) < 0 THEN <<x>> \o sorted
    ELSE <<Head(sorted)>> \o InsertItem(x, Tail(sorted))

RECURSIVE SortItems(_)
\* Array.prototype.sort with TreeCompare, line 147
SortItems(entries) ==
    IF entries = <<>> THEN <<>>
    ELSE InsertItem(entries[Len(entries)], SortItems(SubSeq(entries, 1, Len(entries) - 1)))

RECURSIVE generateTree(_, _, _)
RECURSIVE TreeItems(_, _, _, _)
\* generateTree, lines 129-182: the lines it writes for directory d
generateTree(d, path, prefix) ==
    IF d.name \in EXCLUDED_DIRS THEN <<>>
    ELSE <<Rec("tdir", prefix, d.name, path, <<>>)>> \o
         (IF ~d.listable THEN <<Rec("denied", prefix, <<>>, path, <<>>)>>
          ELSE TreeItems(SortItems(d.entries), 1, path, prefix))

\* the loop of generateTree, lines 160-181, from index i on
TreeItems(items, i, path, prefix) ==
    IF i > Len(items) THEN <<>>
    ELSE LET item == items[i]
             isLast == (i = Len(items))
             currentPrefix == prefix \o <<IF isLast THEN BranchLast ELSE BranchMid>>
             nextPrefix == prefix \o <<IF isLast THEN IndentLast ELSE IndentMid>>
             lines == IF item.type = "dir"
                      THEN IF item.name \notin EXCLUDED_DIRS
                           THEN generateTree(item, path \o <<item.name>>, nextPrefix)
                           ELSE <<>>
                      ELSE IF shouldProcessFile(item)
                           THEN <<Rec("tfile", currentPrefix, item.name,
                                      path \o <<item.name>>, <<>>)>>
                           ELSE <<>>
         IN  lines \o TreeItems(items, i + 1, path, prefix)

(***************************************************************************)
(* The content pass.                                                       *)
(***************************************************************************)
\* the entry called name in directory d
Lookup(d, name) ==
    d.entries[CHOOSE i \in 1..Len(d.entries) : d.entries[i].name = name]

RECURSIVE Resolve(_, _)
\* the directory reached from d along path
Resolve(d, path) ==
    IF path = <<>> THEN d ELSE Resolve(Lookup(d, Head(path)), Tail(path))

RECURSIVE SelectSeq2(_, _)
\* entries.filter(isDirectory).filter(not excluded).map(name), lines 210-213
SelectSeq2(entries, kind) ==
    IF entries = <<>> THEN <<>>
    ELSE LET e == Head(entries)
             keep == IF kind = "dirs"
                     THEN e.type = "dir" /\ e.name \notin EXCLUDED_DIRS
                     ELSE e.type = "file"
         IN  (IF keep THEN <<e.name>> ELSE <<>>) \o SelectSeq2(Tail(entries), kind)

\* the comparator of walkDir, line 219
WalkCompare(a, b) == localeCompare(toLowerCase(a), toLowerCase(b))

RECURSIVE InsertName(_, _)
InsertName(x, sorted) ==
    IF sorted = <<>> THEN <<x>>
    ELSE IF WalkCompare(x, Head(sorted)) < 0 THEN <<x>> \o sorted
    ELSE <<Head(sorted)>> \o InsertName(x, Tail(sorted))

RECURSIVE SortNames(_)
\* Array.prototype.sort with WalkCompare, line 219
SortNames(names) ==
    IF names = <<>> THEN <<>>
    ELSE InsertName(names[Len(names)], SortNames(SubSeq(names, 1, Len(names) - 1)))

\* const dirs, lines 210-213
WalkDirs(d) == SelectSeq2(d.entries, "dirs")

\* const files without the .sort of line 219
WalkFilesUnsorted(d) == SelectSeq2(d.entries, "files")

\* const files, lines 216-219
WalkFiles(d) == SortNames(SelectSeq2(d.entries, "files"))

\* fs.readFileSync(filePath, {encoding}) of line 230 succeeds
ContentReadOk(f, encoding) ==
    ReadWholeOk(f) /\ ~f.ioErr /\ encoding \in SupportedEncodings

(***************************************************************************)
(* State.                                                                  *)
(***************************************************************************)
VARIABLES
    pc,           \* position of the run: "start", "tree", "walk", "done",
                  \* "aborted" (the catch of the main block, line 279), or
                  \* "filter" / "probe" for the runs of a single function
    fs,           \* the directory process.cwd() names, as a directory record
    out,          \* what has been written to outputFile, in order
    stream,       \* "none", "open" or "ended"
    endCalls,     \* number of outputFile.end() calls
    totalLines,   \* line 189
    totalTokens,  \* line 190
    fileCount,    \* line 191
    stack,        \* the activations of walkDir, innermost last
    visited,      \* the directories walkDir has listed, in order
    caught,       \* the error that reached the main catch, "none" if none
    returned,     \* processDirectory has returned
    result,       \* the object processDirectory returned
    sniffFile,    \* the file handed to shouldProcessFile on its own
    sniffResults, \* the results of the successive calls on sniffFile
    bomInput,     \* the file handed to getFileEncoding on its own
    bomResult     \* what getFileEncoding returned for it, "none" before

vars == <<pc, fs, out, stream, endCalls, totalLines, totalTokens, fileCount,
          stack, visited, caught, returned, result,
          sniffFile, sniffResults, bomInput, bomResult>>

walkVars == <<pc, fs, out, stream, endCalls, totalLines, totalTokens, fileCount,
              stack, visited, caught, returned, result>>

File(name, type, bytes, perm, big, ioErr) ==
    [name |-> name, type |-> type, listable |-> FALSE, entries |-> <<>>,
     bytes |-> bytes, perm |-> perm, big |-> big, ioErr |-> ioErr]

Dir(name, listable, entries) ==
    [name |-> name, type |-> "dir", listable |-> listable, entries |-> entries,
     bytes |-> <<>>, perm |-> FALSE, big |-> FALSE, ioErr |-> FALSE]

\* "hello\n"
Hello == <<104, 101, 108, 108, 111, 10>>

\* "a b!\n\nc"
Prose == <<97, 32, 98, 33, 10, 10, 99>>

\* UTF-16LE with BOM, two CJK characters: no zero byte
Wide == <<255, 254, 45, 78, 135, 101>>

\* text with a zero byte at offset 2
Binary == <<97, 0, 98>>

\* the entries a listing of the walk root is drawn from
RootPool ==
    {File(<<"A","p","p","l","e",".","t","x","t">>, "file", Hello, TRUE, FALSE, FALSE),
     File(<<"b","a","n","a","n","a",".","t","x","t">>, "file", Prose, TRUE, FALSE, TRUE),
     File(<<"z",".","p","n","g">>, "file", Hello, TRUE, FALSE, FALSE),
     File(<<"l","i","n","k",".","t","x","t">>, "symlink", Hello, TRUE, FALSE, FALSE),
     File(<<"M","a","k","e","f","i","l","e">>, "file", Wide, TRUE, FALSE, FALSE),
     File(<<"n","u","l",".","t","x","t">>, "file", Binary, TRUE, FALSE, FALSE),
     File(<<"c","a","t",".","m","d">>, "file", Prose, TRUE, FALSE, FALSE),
     Dir(<<"z","e","t","a">>, TRUE,
         <<File(<<"b",".","t","x","t">>, "file", Prose, TRUE, FALSE, FALSE),
           File(<<"A",".","m","d">>, "file", Hello, TRUE, FALSE, FALSE)>>),
     Dir(<<"b","u","i","l","d">>, TRUE,
         <<File(<<"c",".","t","x","t">>, "file", Hello, TRUE, FALSE, FALSE)>>),
     Dir(<<"B","e","t","a">>, TRUE,
         <<Dir(<<"o","u","t">>, TRUE,
               <<File(<<"f",".","t","x","t">>, "file", Hello, TRUE, FALSE, FALSE)>>),
           File(<<"e",".","t","x","t">>, "file", Hello, TRUE, FALSE, FALSE),
           Dir(<<"d","i","s","t">>, TRUE,
               <<Dir(<<"l","i","b">>, TRUE,
                     <<File(<<"d",".","t","x","t">>, "file", Hello, TRUE, FALSE, FALSE)>>)>>),
           File(<<"s","o","c","k">>, "other", <<>>, FALSE, FALSE, FALSE),
           Dir(<<"i","n">>, TRUE,
               <<File(<<"g",".","p","y">>, "file", Prose, TRUE, FALSE, FALSE)>>)>>),
     Dir(<<"l","o","c","k","e","d">>, FALSE, <<>>),
     Dir(<<"a","l","p","h","a">>, TRUE,
         <<File(<<"h",".","j","s">>, "file", Hello, TRUE, FALSE, FALSE)>>)}

\* the names process.cwd() may end in
RootNames == {<<"p","r","o","j">>, <<"b","u","i","l","d">>}

\* listings without a repeated entry, of at most MaxEntries entries
Listings ==
    {l \in UNION {[1..n -> RootPool] : n \in 0..MaxEntries} :
        \A i, j \in 1..Len(l) : i # j => l[i] # l[j]}

NoResult == [fileCount |-> 0, totalLines |-> 0, totalTokens |-> 0]

NoFile == File(<<>>, "file", <<>>, FALSE, FALSE, FALSE)

\* the variables of the single-function runs, unused in a run of the program
PureIdle ==
    /\ sniffFile = NoFile
    /\ sniffResults = <<>>
    /\ bomInput = [bytes |-> <<>>, probeOk |-> FALSE]
    /\ bomResult = "none"

\* the variables of a run of the program, unused in a single-function run
WalkIdle ==
    /\ fs = Dir(<<>>, FALSE, <<>>)
    /\ out = <<>>
    /\ stream = "none"
    /\ endCalls = 0
    /\ totalLines = 0
    /\ totalTokens = 0
    /\ fileCount = 0
    /\ stack = <<>>
    /\ visited = <<>>
    /\ caught = "none"
    /\ returned = FALSE
    /\ result = NoResult

\* the state when the main block calls processDirectory, line 271
Init ==
    /\ pc = "start"
    /\ fs \in {Dir(rn, TRUE, es) : rn \in RootNames, es \in Listings}
    /\ out = <<>>
    /\ stream = "none"
    /\ endCalls = 0
    /\ totalLines = 0
    /\ totalTokens = 0
    /\ fileCount = 0
    /\ stack = <<>>
    /\ visited = <<>>
    /\ caught = "none"
    /\ returned = FALSE
    /\ result = NoResult
    /\ PureIdle

(***************************************************************************)
(* processDirectory, lines 184-264, in the steps of its execution.         *)
(***************************************************************************)
Frame(path, listed, files, dirs) ==
    [path |-> path, listed |-> listed, files |-> files, dirs |-> dirs]

Top == stack[Len(stack)]

Pop == SubSeq(stack, 1, Len(stack) - 1)

\* lines 189-196: the counters, createWriteStream and the two header writes
OpenStream ==
    /\ pc = "start"
    /\ stream' = "open"
    /\ out' = out \o <<Marker("<project_overview>"), Marker("<generated_at>")>>
    /\ totalLines' = 0
    /\ totalTokens' = 0
    /\ fileCount' = 0
    /\ pc' = "tree"
    /\ UNCHANGED <<fs, endCalls, stack, visited, caught, returned, result,
                   sniffFile, sniffResults, bomInput, bomResult>>

\* lines 198-202 and the call of line 256: the directory_structure section,
\* the opening of file_contents, and walkDir(startPath) is entered
TreePass ==
    /\ pc = "tree"
    /\ out' = out \o <<Marker("<directory_structure>")>>
                  \o generateTree(fs, <<>>, <<>>)
                  \o <<Marker("</directory_structure>"), Marker("<file_contents>")>>
    /\ stack' = <<Frame(<<>>, FALSE, <<>>, <<>>)>>
    /\ pc' = "walk"
    /\ UNCHANGED <<fs, stream, endCalls, totalLines, totalTokens, fileCount,
                   visited, caught, returned, result,
                   sniffFile, sniffResults, bomInput, bomResult>>

\* lines 207-219: walkDir lists its directory.  readdirSync is not inside a
\* try, so a failure unwinds every activation and processDirectory itself,
\* and is caught by the main block, lines 279-282
WalkList ==
    /\ pc = "walk"
    /\ stack # <<>>
    /\ ~Top.listed
    /\ LET d == Resolve(fs, Top.path)
       IN  IF d.listable
           THEN /\ stack' = Pop \o <<Frame(Top.path, TRUE, WalkFiles(d), WalkDirs(d))>>
                /\ visited' = Append(visited, Top.path)
                /\ UNCHANGED <<pc, caught>>
           ELSE /\ stack' = <<>>
                /\ pc' = "aborted"
                /\ caught' = "readdir"
                /\ UNCHANGED visited
    /\ UNCHANGED <<fs, out, stream, endCalls, totalLines, totalTokens, fileCount,
                   returned, result, sniffFile, sniffResults, bomInput, bomResult>>

\* lines 221-247: one iteration of the loop over files
WalkFile ==
    /\ pc = "walk"
    /\ stack # <<>>
    /\ Top.listed
    /\ Top.files # <<>>
    /\ LET file == Head(Top.files)
           f == Lookup(Resolve(fs, Top.path), file)
           relPath == Top.path \o <<file>>
           encoding == getFileEncoding(f.bytes, f.perm)
           content == Decode(f.bytes, encoding)
       IN  IF ~shouldProcessFile(f)
           THEN UNCHANGED <<out, totalLines, totalTokens, fileCount>>
           ELSE IF ContentReadOk(f, encoding)
           THEN /\ out' = Append(out, Rec("file", <<>>, file, relPath, content))
                /\ totalLines' = totalLines + CountLines(content)
                /\ totalTokens' = totalTokens + estimateTokens(content)
                /\ fileCount' = fileCount + 1
           ELSE /\ out' = Append(out, Rec("error", <<>>, file, relPath, <<>>))
                /\ UNCHANGED <<totalLines, totalTokens, fileCount>>
    /\ stack' = Pop \o <<Frame(Top.path, TRUE, Tail(Top.files), Top.dirs)>>
    /\ UNCHANGED <<pc, fs, stream, endCalls, visited, caught, returned, result,
                   sniffFile, sniffResults, bomInput, bomResult>>

\* lines 250-253: one iteration of the loop over subdirectories
WalkRecurse ==
    /\ pc = "walk"
    /\ stack # <<>>
    /\ Top.listed
    /\ Top.files = <<>>
    /\ Top.dirs # <<>>
    /\ stack' = Pop \o <<Frame(Top.path, TRUE, <<>>, Tail(Top.dirs)),
                         Frame(Top.path \o <<Head(Top.dirs)>>, FALSE, <<>>, <<>>)>>
    /\ UNCHANGED <<pc, fs, out, stream, endCalls, totalLines, totalTokens,
                   fileCount, visited, caught, returned, result,
                   sniffFile, sniffResults, bomInput, bomResult>>

\* line 254: an activation of walkDir returns
WalkReturn ==
    /\ pc = "walk"
    /\ stack # <<>>
    /\ Top.listed
    /\ Top.files = <<>>
    /\ Top.dirs = <<>>
    /\ stack' = Pop
    /\ UNCHANGED <<pc, fs, out, stream, endCalls, totalLines, totalTokens,
                   fileCount, visited, caught, returned, result,
                   sniffFile, sniffResults, bomInput, bomResult>>

\* lines 258-263: the closing markers, end() and the return
Finish ==
    /\ pc = "walk"
    /\ stack = <<>>
    /\ stream = "open"
    /\ out' = out \o <<Marker("</file_contents>"), Marker("</project_overview>")>>
    /\ stream' = "ended"
    /\ endCalls' = endCalls + 1
    /\ returned' = TRUE
    /\ result' = [fileCount |-> fileCount, totalLines |-> totalLines,
                  totalTokens |-> totalTokens]
    /\ pc' = "done"
    /\ UNCHANGED <<fs, totalLines, totalTokens, fileCount, stack, visited, caught,
                   sniffFile, sniffResults, bomInput, bomResult>>

Next ==
    \/ OpenStream
    \/ TreePass
    \/ WalkList
    \/ WalkFile
    \/ WalkRecurse
    \/ WalkReturn
    \/ Finish

Spec == Init /\ [][Next]_vars

(***************************************************************************)
(* shouldProcessFile on its own: one file, called twice.                   *)
(***************************************************************************)
\* bytes 97 ("a") up to a single zero byte at offset k - 1 (the k-th byte)
NulAt(k) == [i \in 1..k |-> IF i = k THEN 0 ELSE 97]

SniffNames ==
    {<<"A","p","p","l","e",".","t","x","t">>,
     <<"B",".","T","X","T">>,
     <<"M","a","k","e","f","i","l","e">>,
     <<".","e","n","v">>,
     <<"z",".","p","n","g">>,
     <<"Z",".","P","N","G">>,
     <<"c",".","r","s">>,
     <<"a",".","t","a","r",".","m","d">>,
     <<"y","a","r","n",".","l","o","c","k">>,
     <<"p","a","c","k","a","g","e","-","l","o","c","k",".","j","s","o","n">>,
     <<"p","r","o","j","e","c","t","-","c","o","n","t","e","x","t",".","t","x","t">>,
     <<"p","r","o","j","e","c","t","2","c","o","n","t","e","x","t",".","j","s">>}

SniffContents == {<<>>, Hello, Binary, NulAt(SniffLen), NulAt(SniffLen + 1)}

\* a big file has more than the sniffed bytes
SniffFiles ==
    {f \in {File(n, "file", b, p, g, FALSE) :
               n \in SniffNames, b \in SniffContents, p \in BOOLEAN, g \in BOOLEAN} :
        f.big => Len(f.bytes) > SniffLen}

InitFilter ==
    /\ pc = "filter"
    /\ sniffFile \in SniffFiles
    /\ sniffResults = <<>>
    /\ bomInput = [bytes |-> <<>>, probeOk |-> FALSE]
    /\ bomResult = "none"
    /\ WalkIdle

\* a call shouldProcessFile(path) on the unchanged file
CallShouldProcessFile ==
    /\ pc = "filter"
    /\ Len(sniffResults) < 2
    /\ sniffResults' = Append(sniffResults, shouldProcessFile(sniffFile))
    /\ UNCHANGED <<walkVars, sniffFile, bomInput, bomResult>>

NextFilter == CallShouldProcessFile

SpecFilter == InitFilter /\ [][NextFilter]_vars

(***************************************************************************)
(* getFileEncoding on its own.                                             *)
(***************************************************************************)
\* the bytes BOMs are made of, and one letter
BomBytes == {0, 65, 187, 191, 239, 254, 255}

BomInputs ==
    [bytes : UNION {[1..n -> BomBytes] : n \in 0..BomLen}, probeOk : BOOLEAN]

InitProbe ==
    /\ pc = "probe"
    /\ bomInput \in BomInputs
    /\ bomResult = "none"
    /\ sniffFile = NoFile
    /\ sniffResults = <<>>
    /\ WalkIdle

\* a call getFileEncoding(path)
CallGetFileEncoding ==
    /\ pc = "probe"
    /\ bomResult = "none"
    /\ bomResult' = getFileEncoding(bomInput.bytes, bomInput.probeOk)
    /\ UNCHANGED <<walkVars, sniffFile, sniffResults, bomInput>>

NextProbe == CallGetFileEncoding

SpecProbe == InitProbe /\ [][NextProbe]_vars

(***************************************************************************)
(* Properties.                                                             *)
(***************************************************************************)
Indices == 1..Len(out)

IsTreeChild(i) == out[i].k \in {"tdir", "tfile"} /\ out[i].path # <<>>

IsBlock(i) == out[i].k \in {"file", "error"}

\* the directory an entry's path lies in
Parent(path) == SubSeq(path, 1, Len(path) - 1)

IsPrefix(p, q) == Len(p) <= Len(q) /\ SubSeq(q, 1, Len(p)) = p

\* a <= b in case-insensitive alphabetical order
AlphaLeq(a, b) == PrimaryCompare(toLowerCase(a), toLowerCase(b)) <= 0

Terminated == pc \in {"done", "aborted"}

\* C1: no file beneath a directory whose name is in EXCLUDED_DIRS, the walk
\* root included, is written as a tree line or as a content block.
C1_NoFileBeneathExcluded ==
    \A i \in Indices :
        out[i].k \in {"tfile", "file", "error"} =>
            /\ fs.name \notin EXCLUDED_DIRS
            /\ \A j \in 1..(Len(out[i].path) - 1) : out[i].path[j] \notin EXCLUDED_DIRS

\* C2: a directory listing that fails during the content pass is recovered
\* inside the walk: it never reaches the caller of processDirectory, and
\* every run that ends has written the closing markers and returned its
\* counters.
C2_ListingFailureRecovered ==
    /\ caught = "none"
    /\ Terminated =>
          /\ returned
          /\ Len(out) >= 2
          /\ out[Len(out) - 1] = Marker("</file_contents>")
          /\ out[Len(out)] = Marker("</project_overview>")

\* the frame of the output: header, tree section, content section, closing
\* markers, in that order and with nothing else
Layout ==
    \E a, b \in Indices :
        /\ 3 < a /\ a + 1 < b /\ b + 1 = Len(out)
        /\ out[1] = Marker("<project_overview>")
        /\ out[2] = Marker("<generated_at>")
        /\ out[3] = Marker("<directory_structure>")
        /\ \A i \in 4..(a - 1) : out[i].k \in {"tdir", "tfile", "denied"}
        /\ out[a] = Marker("</directory_structure>")
        /\ out[a + 1] = Marker("<file_contents>")
        /\ \A i \in (a + 2)..(b - 1) : IsBlock(i)
        /\ out[b] = Marker("</file_contents>")
        /\ out[b + 1] = Marker("</project_overview>")

\* C3: every run that opened the stream ends with the stream closed exactly
\* once, after the header, the tree section, the content section and the
\* closing markers were written in that order.
C3_StreamClosedOnceAfterAll ==
    (Terminated /\ stream # "none") =>
        /\ stream = "ended"
        /\ endCalls = 1
        /\ Layout

RECURSIVE Newlines(_)
\* the number of newline characters of a text
Newlines(text) ==
    IF text = <<>> THEN 0
    ELSE (IF Head(text) = 10 THEN 1 ELSE 0) + Newlines(Tail(text))

RECURSIVE SumOverFiles(_, _)
\* the sum over the <file> blocks of a stream of the lines (what = "lines")
\* or of the estimated tokens (what = "tokens") of their content
SumOverFiles(stream_, what) ==
    IF stream_ = <<>> THEN 0
    ELSE (IF Head(stream_).k # "file" THEN 0
          ELSE IF what = "lines" THEN Newlines(Head(stream_).content) + 1
          ELSE estimateTokens(Head(stream_).content))
         + SumOverFiles(Tail(stream_), what)

\* C4: at every point of the content pass fileCount is the number of <file>
\* blocks written so far, totalLines the sum over them of (newlines + 1) and
\* totalTokens the sum of their estimates: an <error> block adds to none of
\* the three, and the walk goes on after it.
C4_CountersMatchBlocks ==
    /\ fileCount = Cardinality({i \in Indices : out[i].k = "file"})
    /\ totalLines = SumOverFiles(out, "lines")
    /\ totalTokens = SumOverFiles(out, "tokens")
    /\ (\E i \in Indices : out[i].k = "error") => caught \in {"none", "readdir"}
    /\ returned => result = [fileCount |-> fileCount, totalLines |-> totalLines,
                             totalTokens |-> totalTokens]

\* an <error> block between two <file> blocks, the later one with newlines
C4_Witness ==
    \E i, j, l \in Indices :
        /\ i < j /\ j < l
        /\ out[i].k = "file" /\ out[j].k = "error" /\ out[l].k = "file"
        /\ Newlines(out[l].content) = 2
        /\ fileCount = 2

\* the claimed result of shouldProcessFile: only the first 1024 bytes matter
ClaimedShouldProcess(f) ==
    /\ f.name # getScriptName
    /\ f.name \notin EXCLUDED_FILES
    /\ toLowerCase(extname(f.name)) \notin EXCLUDED_EXTENSIONS
    /\ (toLowerCase(extname(f.name)) \in TEXT_EXTENSIONS \/ extname(f.name) = <<>>)
    /\ f.perm
    /\ \A i \in 1..Len(f.bytes) : i <= SniffLen => f.bytes[i] # 0

\* C5: shouldProcessFile is true exactly when the name passes the four name
\* tests and the first 1024 bytes of the file can be read and hold no null
\* byte; two calls on the unchanged file agree.
C5_ShouldProcessExactly ==
    \A i \in 1..Len(sniffResults) :
        /\ sniffResults[i] = ClaimedShouldProcess(sniffFile)
        /\ sniffResults[i] = sniffResults[1]

\* C6: in the tree section the child lines of a directory show all its
\* subdirectories before all its files, each group in ascending
\* case-insensitive alphabetical order of name.
C6_TreeOrder ==
    \A i, j \in Indices :
        (i < j /\ IsTreeChild(i) /\ IsTreeChild(j)
           /\ Parent(out[i].path) = Parent(out[j].path)) =>
            /\ ~(out[i].k = "tfile" /\ out[j].k = "tdir")
            /\ out[i].k = out[j].k => AlphaLeq(out[i].name, out[j].name)

\* the siblings zeta/, Apple.txt, banana.txt, listed by the file system with a
\* file first, are shown in this order
C6_Witness ==
    /\ Len(fs.entries) = 3
    /\ fs.entries[1].type = "file"
    /\ fs.entries[1].name = <<"b","a","n","a","n","a",".","t","x","t">>
    /\ \E i, j, l \in Indices :
          /\ i < j /\ j < l
          /\ out[i].k = "tdir" /\ out[i].path = <<<<"z","e","t","a">>>>
          /\ out[j].k = "tfile" /\ out[j].path = <<<<"A","p","p","l","e",".","t","x","t">>>>
          /\ out[l].k = "tfile" /\ out[l].path = <<fs.entries[1].name>>

\* position of the entry called name in the listing of directory d
ListingIndex(d, name) ==
    CHOOSE i \in 1..Len(d.entries) : d.entries[i].name = name

\* first position at which two paths differ, neither a prefix of the other
Fork(p, q) == CHOOSE n \in 1..Len(p) : p[n] # q[n] /\ SubSeq(p, 1, n - 1) = SubSeq(q, 1, n - 1)

\* directory p may be worked on before directory q: p is q or an ancestor of
\* q, or they lie under two subdirectories of a common ancestor of which p's
\* comes first in the listing
WalkBefore(p, q) ==
    IF IsPrefix(p, q) THEN TRUE
    ELSE IF IsPrefix(q, p) THEN FALSE
    ELSE LET n == Fork(p, q)
             d == Resolve(fs, SubSeq(p, 1, n - 1))
         IN  ListingIndex(d, p[n]) < ListingIndex(d, q[n])

\* C7: in the content pass the blocks of a directory's own files come in
\* case-insensitive alphabetical order and before every block of a file in
\* one of its subdirectories; the subdirectories are visited in listing
\* order, each with its whole subtree before the next.
C7_ContentOrder ==
    /\ \A i, j \in Indices :
          (i < j /\ IsBlock(i) /\ IsBlock(j)) =>
              /\ WalkBefore(Parent(out[i].path), Parent(out[j].path))
              /\ Parent(out[i].path) = Parent(out[j].path)
                    => AlphaLeq(out[i].name, out[j].name)
    /\ \A i, j \in 1..Len(visited) :
          i < j => visited[i] # visited[j] /\ WalkBefore(visited[i], visited[j])

\* a finished run with a block of a root file, then blocks of two
\* subdirectories that the listing returns in non-alphabetical order, the
\* first of them with two files the listing returns unsorted
C7_Witness ==
    /\ pc = "done"
    /\ \E h, i, j, l \in Indices :
          /\ h < i /\ i < j /\ j < l
          /\ out[h].k = "file" /\ Len(out[h].path) = 1
          /\ out[i].k = "file" /\ out[i].path = <<<<"z","e","t","a">>, <<"A",".","m","d">>>>
          /\ out[j].k = "file" /\ out[j].path = <<<<"z","e","t","a">>, <<"b",".","t","x","t">>>>
          /\ out[l].k = "file" /\ out[l].path[1] = <<"a","l","p","h","a">>

\* the last child line written for the same directory as line i
IsLastChild(i) ==
    \A j \in Indices :
        (IsTreeChild(j) /\ Parent(out[j].path) = Parent(out[i].path)) => j <= i

\* C8: every child line of the tree, of a subdirectory as of a file, ends its
\* prefix with a branch glyph: the corner for the last child line written
\* for its directory, the tee for every earlier one.
C8_BranchGlyphs ==
    \A i \in Indices :
        IsTreeChild(i) =>
            /\ out[i].prefix # <<>>
            /\ out[i].prefix[Len(out[i].prefix)]
                 = (IF IsLastChild(i) THEN BranchLast ELSE BranchMid)

\* the file starts with the bytes of bom
StartsWith(bytes, bom) == Len(bytes) >= Len(bom) /\ SubSeq(bytes, 1, Len(bom)) = bom

\* the claimed classification of the first 4 bytes of the file
ClaimedEncoding(input) ==
    IF ~input.probeOk THEN "utf8"
    ELSE IF StartsWith(input.bytes, <<239, 187, 191>>) THEN "utf8"
    ELSE IF StartsWith(input.bytes, <<255, 254, 0, 0>>) THEN "utf32le"
    ELSE IF StartsWith(input.bytes, <<255, 254>>) \/ StartsWith(input.bytes, <<254, 255>>)
         THEN "utf16le"
    ELSE "utf8"

\* C9: getFileEncoding gives UTF-8 for the UTF-8 BOM, UTF-16 for FF FE and
\* FE FF, UTF-32 for FF FE 00 00, and UTF-8 for any other prefix and when
\* the probe fails.
C9_EncodingByBom ==
    bomResult # "none" => bomResult = ClaimedEncoding(bomInput)

\* C10: in a completed run a path has a file line in the tree section exactly
\* when the content section has a <file> or <error> block for it.
C10_PassesAgree ==
    pc = "done" =>
        {out[i].path : i \in {n \in Indices : out[n].k = "tfile"}}
          = {out[i].path : i \in {n \in Indices : IsBlock(n)}}

====
